---- MODULE Spec2Model ----
(***************************************************************************)
(* A model of data_processor.py: the CSV loader, the three filters and the *)
(* three aggregators over a pandas DataFrame.                              *)
(*                                                                         *)
(* A DataFrame is an object on a heap (so that "returns df" and "returns a *)
(* new frame" differ), holding its column names and its rows in order;     *)
(* each row carries its pandas index label.  Time is counted in ticks of   *)
(* half a day, so that a timestamp can carry a time of day.  Every date    *)
(* cell and every date bound is a date pd.to_datetime parses.              *)
(*                                                                         *)
(* A behaviour starts with a CSV file on disk and nothing loaded; the      *)
(* caller loads it once and then calls the filters and the aggregators on  *)
(* the frame it got, in any order and any number of times.                 *)
(***************************************************************************)
EXTENDS Integers, Sequences, FiniteSets, TLC

VARIABLES
    file,   \* the CSV file on disk: its header and its rows of text cells
    heap,   \* the DataFrame objects alive: object id -> frame
    df,     \* id of the frame load_and_process_data returned (0: none yet)
    call    \* the last call made: function, arguments, returned id, error

vars == <<file, heap, df, call>>

----------------------------------------------------------------------------
(* Bounds of the model *)

MaxRows == 3        \* rows of a CSV file
MaxDay == 1         \* calendar days 0..MaxDay

(* pd.Timedelta(days=1), in ticks *)
OneDay == 2

----------------------------------------------------------------------------
(* Values *)

(* the columns the functions read *)
Columns == {"date", "location", "parameter", "value", "lat", "lon"}

(* the text read_csv takes for a missing cell (its default na_values) *)
NaValues == {"", "NA", "NaN"}

(* the numeric literals of the files, with the number each one parses to *)
Numerals == {"10", "20"}

ParseNumber(s) == IF s = "10" THEN 10 ELSE 20

(* a cell of a parsed column: a float, NaN, or a string left as it is *)
Float(n) == [k |-> "float", n |-> n, s |-> ""]

NaN == [k |-> "nan", n |-> 0, s |-> ""]

Str(s) == [k |-> "str", n |-> 0, s |-> s]

(* a date-like value: a calendar day and a time of day, as text or as a    *)
(* date object                                                             *)
DateLikes == [day : 0..MaxDay, tick : 0..(OneDay - 1)]

(* pd.to_datetime: the timestamp of a date-like value, in ticks *)
to_datetime(d) == d.day * OneDay + d.tick

(* all sequences over S of length at most n *)
SeqUpTo(S, n) == UNION {[1..k -> S] : k \in 0..n}

(* the indices of the rows of a frame *)
Positions(t) == 1..Len(t.rows)

(* a Python argument: None, a list (its order does not matter to isin) or  *)
(* a single string                                                         *)
None == [kind |-> "None", items |-> {}, s |-> ""]

List(S) == [kind |-> "list", items |-> S, s |-> ""]

PyStr(s) == [kind |-> "str", items |-> {}, s |-> s]

(* Python's "not x" *)
Falsy(x) ==
    \/ x.kind = "None"
    \/ x.kind = "list" /\ x.items = {}
    \/ x.kind = "str" /\ x.s = ""

(* Series.isin(values): NaN is in no list of strings *)
isin(cell, values) == cell.k = "str" /\ cell.s \in values.items

(* the rows at the positions where the mask holds, in order *)
RECURSIVE Masked(_, _)
Masked(rows, mask) ==
    IF rows = <<>> THEN <<>>
    ELSE (IF Head(mask) THEN <<Head(rows)>> ELSE <<>>) \o Masked(Tail(rows), Tail(mask))

(* df[mask]: a frame of the rows the boolean mask selects, index labels    *)
(* kept                                                                    *)
SelectRows(t, mask) == [columns |-> t.columns, rows |-> Masked(t.rows, mask)]

----------------------------------------------------------------------------
(* read_csv: one column of text cells to one column of values.  A column   *)
(* whose non-missing cells are all numerals is a float column; any other   *)
(* column keeps its non-missing cells as strings.                          *)

IsNumericColumn(f, c) ==
    \A i \in 1..Len(f.rows) : f.rows[i][c] \in NaValues \cup Numerals

ReadCell(f, c, i) ==
    LET s == f.rows[i][c]
    IN  IF s \in NaValues THEN NaN
        ELSE IF IsNumericColumn(f, c) THEN Float(ParseNumber(s))
        ELSE Str(s)

(* the row i of the file as read_csv and to_datetime leave it *)
ReadRow(f, i) ==
    [c \in f.columns \cup {"index"} |->
        IF c = "index" THEN i - 1
        ELSE IF c = "date" THEN to_datetime(f.rows[i][c])
        ELSE ReadCell(f, c, i)]

read_csv(f) ==
    [columns |-> f.columns, rows |-> [i \in 1..Len(f.rows) |-> ReadRow(f, i)]]

(* DataFrame.dropna(subset=...): the rows with no NaN in the subset *)
dropna(t, subset) ==
    SelectRows(t, [i \in Positions(t) |-> \A c \in subset : t.rows[i][c].k # "nan"])

(* a subset that leaves lon out *)
DropnaSubsetWithoutLon == {"value", "lat"}

(* the subset load_and_process_data gives dropna *)
DropnaSubset == {"value", "lat", "lon"}

(* the columns load_and_process_data looks up by name: a column that is    *)
(* not in the frame raises KeyError                                        *)
LoadKeys == {"date"} \cup DropnaSubset

(* load_and_process_data with dropna() given no subset: a row with any    *)
(* missing cell is dropped                                                 *)
load_and_process_data_dropna_any(f) ==
    IF ~(LoadKeys \subseteq f.columns)
    THEN [error |-> "KeyError", table |-> [columns |-> {}, rows |-> <<>>]]
    ELSE [error |-> "", table |-> dropna(read_csv(f), f.columns \ {"date"})]

(* load_and_process_data: [error, table] *)
load_and_process_data(f) ==
    IF ~(LoadKeys \subseteq f.columns)
    THEN [error |-> "KeyError", table |-> [columns |-> {}, rows |-> <<>>]]
    ELSE [error |-> "", table |-> dropna(read_csv(f), DropnaSubset)]

----------------------------------------------------------------------------
(* filter_data_by_date_range *)

(* the filter without the day added to end_date *)
filter_data_by_date_range_half_open(t, start_date, end_date) ==
    LET start == to_datetime(start_date)
        end == to_datetime(end_date)
    IN  SelectRows(t, [i \in Positions(t) |-> t.rows[i].date >= start /\ t.rows[i].date < end])

(* the filter with <= for the upper bound *)
filter_data_by_date_range_closed(t, start_date, end_date) ==
    LET start == to_datetime(start_date)
        end == to_datetime(end_date) + OneDay
    IN  SelectRows(t, [i \in Positions(t) |-> t.rows[i].date >= start /\ t.rows[i].date <= end])

filter_data_by_date_range(t, start_date, end_date) ==
    LET start == to_datetime(start_date)
        end == to_datetime(end_date) + OneDay
    IN  SelectRows(t, [i \in Positions(t) |-> t.rows[i].date >= start /\ t.rows[i].date < end])

----------------------------------------------------------------------------
(* filter_data_by_location: [same, table]; same says that the function     *)
(* returned the object it was given                                        *)

(* the filter without its "if not locations" *)
filter_data_by_location_no_guard(t, locations) ==
    LET mask == [i \in Positions(t) |-> isin(t.rows[i].location, locations)]
    IN  [same |-> FALSE, table |-> SelectRows(t, mask)]

(* the filter returning df.copy() for an empty selection *)
filter_data_by_location_copy(t, locations) ==
    LET mask == [i \in Positions(t) |-> isin(t.rows[i].location, locations)]
    IN  IF Falsy(locations)
        THEN [same |-> FALSE, table |-> t]
        ELSE [same |-> FALSE, table |-> SelectRows(t, mask)]

filter_data_by_location(t, locations) ==
    LET mask == [i \in Positions(t) |-> isin(t.rows[i].location, locations)]
    IN  IF Falsy(locations)
        THEN [same |-> TRUE, table |-> t]
        ELSE [same |-> FALSE, table |-> SelectRows(t, mask)]

----------------------------------------------------------------------------
(* filter_data_by_parameter *)

(* the filter without its isinstance(parameters, str) *)
filter_data_by_parameter_no_wrap(t, parameters) ==
    SelectRows(t, [i \in Positions(t) |-> isin(t.rows[i].parameter, parameters)])

filter_data_by_parameter(t, parameters) ==
    LET list == IF parameters.kind = "str" THEN List({parameters.s}) ELSE parameters
    IN  SelectRows(t, [i \in Positions(t) |-> isin(t.rows[i].parameter, list)])

----------------------------------------------------------------------------
(* groupby *)

(* df[df['parameter'] == parameter] *)
ParameterRows(t, parameter) ==
    SelectRows(t, [i \in Positions(t) |-> t.rows[i].parameter = Str(parameter)])

(* the order groupby sorts location strings in *)
Collation == <<"A", "B">>

Rank(s) == CHOOSE i \in 1..Len(Collation) : Collation[i] = s

(* keys are <<timestamp, location>>, ordered by timestamp, then location *)
KeyLeq(x, y) == x[1] < y[1] \/ (x[1] = y[1] /\ Rank(x[2]) <= Rank(y[2]))

RECURSIVE SortKeys(_)
SortKeys(S) ==
    IF S = {} THEN <<>>
    ELSE LET m == CHOOSE x \in S : \A y \in S : KeyLeq(x, y)
         IN  <<m>> \o SortKeys(S \ {m})

RECURSIVE Sum(_)
Sum(s) == IF s = <<>> THEN 0 ELSE Head(s) + Sum(Tail(s))

(* the mean of a non-empty sequence of numbers, as an exact fraction *)
Mean(s) == [num |-> Sum(s), den |-> Len(s)]

Min(s) == CHOOSE x \in {s[i] : i \in 1..Len(s)} : \A i \in 1..Len(s) : x <= s[i]

Max(s) == CHOOSE x \in {s[i] : i \in 1..Len(s)} : \A i \in 1..Len(s) : x >= s[i]

(* the key a row is grouped under: by is <<"date", "location">> or         *)
(* <<"location">>                                                          *)
GroupKey(r, by) == <<IF Head(by) = "date" THEN r.date ELSE 0, r.location.s>>

(* groupby drops the rows whose key is NaN (dropna=True) *)
HasKey(r) == r.location.k = "str"

(* the sorted keys of a frame's groups *)
GroupKeys(t, by) ==
    SortKeys({GroupKey(t.rows[i], by) : i \in {j \in Positions(t) : HasKey(t.rows[j])}})

(* the values of the rows of one group, in row order *)
GroupValues(t, by, key) ==
    LET rows == Masked(t.rows, [i \in Positions(t) |->
                                   HasKey(t.rows[i]) /\ GroupKey(t.rows[i], by) = key])
    IN  [i \in 1..Len(rows) |-> rows[i].value.n]

----------------------------------------------------------------------------
(* aggregate_data_for_time_series; freq is accepted and never read *)

aggregate_data_for_time_series(t, parameter, freq) ==
    LET param_df == ParameterRows(t, parameter)
        keys == GroupKeys(param_df, <<"date", "location">>)
    IN  [columns |-> {"date", "location", "value"},
         rows |-> [i \in 1..Len(keys) |->
                     [index |-> i - 1,
                      date |-> keys[i][1],
                      location |-> Str(keys[i][2]),
                      value |-> Mean(GroupValues(param_df, <<"date", "location">>, keys[i]))]]]

----------------------------------------------------------------------------
(* aggregate_data_for_comparison *)

(* the aggregator grouping df instead of param_df *)
aggregate_data_for_comparison_all_rows(t, parameter) ==
    LET keys == GroupKeys(t, <<"location">>)
        Values(i) == GroupValues(t, <<"location">>, keys[i])
    IN  [columns |-> {"location", "mean", "min", "max"},
         rows |-> [i \in 1..Len(keys) |->
                     [index |-> i - 1,
                      location |-> Str(keys[i][2]),
                      mean |-> Mean(Values(i)),
                      min |-> Min(Values(i)),
                      max |-> Max(Values(i))]]]

aggregate_data_for_comparison(t, parameter) ==
    LET param_df == ParameterRows(t, parameter)
        keys == GroupKeys(param_df, <<"location">>)
        Values(i) == GroupValues(param_df, <<"location">>, keys[i])
    IN  [columns |-> {"location", "mean", "min", "max"},
         rows |-> [i \in 1..Len(keys) |->
                     [index |-> i - 1,
                      location |-> Str(keys[i][2]),
                      mean |-> Mean(Values(i)),
                      min |-> Min(Values(i)),
                      max |-> Max(Values(i))]]]

----------------------------------------------------------------------------
(* prepare_correlation_data *)

(* pd.merge(..., how='inner') on date and location: one row for every row  *)
(* of the left frame and every row of the right frame with the same key,   *)
(* left rows in order; NaN keys match each other                           *)
RECURSIVE MergeRows(_, _)
MergeRows(left, right) ==
    IF left = <<>> THEN <<>>
    ELSE LET l == Head(left)
             hits == Masked(right, [j \in 1..Len(right) |->
                                      right[j].date = l.date /\ right[j].location = l.location])
         IN  [j \in 1..Len(hits) |-> [date |-> l.date, location |-> l.location,
                                       left |-> l.value, right |-> hits[j].value]]
             \o MergeRows(Tail(left), right)

(* pd.merge(..., how='left'): a left row without a match is kept, with NaN *)
RECURSIVE MergeRowsLeft(_, _)
MergeRowsLeft(left, right) ==
    IF left = <<>> THEN <<>>
    ELSE LET l == Head(left)
             hits == Masked(right, [j \in 1..Len(right) |->
                                      right[j].date = l.date /\ right[j].location = l.location])
         IN  (IF hits = <<>>
              THEN <<[date |-> l.date, location |-> l.location,
                      left |-> l.value, right |-> NaN]>>
              ELSE [j \in 1..Len(hits) |-> [date |-> l.date, location |-> l.location,
                                            left |-> l.value, right |-> hits[j].value]])
             \o MergeRowsLeft(Tail(left), right)

(* the names merge gives the two value columns: suffixed when they clash *)
MergedColumns(param1, param2) ==
    IF param1 = param2 THEN <<param1 \o "_x", param2 \o "_y">> ELSE <<param1, param2>>

(* prepare_correlation_data with how='left' *)
prepare_correlation_data_left_join(t, param1, param2) ==
    LET df1 == ParameterRows(t, param1)
        df2 == ParameterRows(t, param2)
        merged == MergeRowsLeft(df1.rows, df2.rows)
        names == MergedColumns(param1, param2)
    IN  [columns |-> {"date", "location", names[1], names[2]},
         names |-> names,
         rows |-> [i \in 1..Len(merged) |->
                     [index |-> i - 1,
                      date |-> merged[i].date,
                      location |-> merged[i].location,
                      first |-> merged[i].left,
                      second |-> merged[i].right]]]

prepare_correlation_data(t, param1, param2) ==
    LET df1 == ParameterRows(t, param1)
        df2 == ParameterRows(t, param2)
        merged == MergeRows(df1.rows, df2.rows)
        names == MergedColumns(param1, param2)
    IN  [columns |-> {"date", "location", names[1], names[2]},
         names |-> names,
         rows |-> [i \in 1..Len(merged) |->
                     [index |-> i - 1,
                      date |-> merged[i].date,
                      location |-> merged[i].location,
                      first |-> merged[i].left,
                      second |-> merged[i].right]]]

----------------------------------------------------------------------------
(* The calls *)

NoCall ==
    [op |-> "", start |-> 0, end |-> 0, locations |-> None, parameters |-> None,
     parameter |-> "", param1 |-> "", param2 |-> "", ret |-> 0, error |-> ""]

(* the arguments the calls are made with *)
LocationNames == {"A", "B"}

ParameterNames == {"PM25", "NO2"}

LocationArgs == {None} \cup {List(S) : S \in SUBSET LocationNames}

ParametersArgs == {PyStr(p) : p \in ParameterNames} \cup {List(S) : S \in SUBSET ParameterNames}

(* a fresh object id *)
NewId == df + 1

(* the heap once the previous result is garbage and t is allocated *)
Alloc(t) == [i \in {df, NewId} |-> IF i = df THEN heap[df] ELSE t]

(* the heap once the previous result is garbage *)
Keep == [i \in {df} |-> heap[df]]

Load ==
    /\ df = 0
    /\ call.op = ""
    /\ LET r == load_and_process_data(file)
       IN  IF r.error # ""
           THEN /\ call' = [NoCall EXCEPT !.op = "load_and_process_data",
                                          !.error = r.error]
                /\ UNCHANGED <<heap, df>>
           ELSE /\ heap' = [i \in {1} |-> r.table]
                /\ df' = 1
                /\ call' = [NoCall EXCEPT !.op = "load_and_process_data", !.ret = 1]
    /\ UNCHANGED file

FilterDataByDateRange ==
    /\ df # 0
    /\ \E s \in DateLikes, e \in DateLikes :
        /\ heap' = Alloc(filter_data_by_date_range(heap[df], s, e))
        /\ call' = [NoCall EXCEPT !.op = "filter_data_by_date_range",
                                  !.start = to_datetime(s), !.end = to_datetime(e),
                                  !.ret = NewId]
    /\ UNCHANGED <<file, df>>

FilterDataByLocation ==
    /\ df # 0
    /\ \E locations \in LocationArgs :
        LET r == filter_data_by_location(heap[df], locations)
        IN  /\ heap' = IF r.same THEN Keep ELSE Alloc(r.table)
            /\ call' = [NoCall EXCEPT !.op = "filter_data_by_location",
                                      !.locations = locations,
                                      !.ret = IF r.same THEN df ELSE NewId]
    /\ UNCHANGED <<file, df>>

FilterDataByParameter ==
    /\ df # 0
    /\ \E parameters \in ParametersArgs :
        /\ heap' = Alloc(filter_data_by_parameter(heap[df], parameters))
        /\ call' = [NoCall EXCEPT !.op = "filter_data_by_parameter",
                                  !.parameters = parameters, !.ret = NewId]
    /\ UNCHANGED <<file, df>>

AggregateDataForTimeSeries ==
    /\ df # 0
    /\ \E parameter \in ParameterNames :
        /\ heap' = Alloc(aggregate_data_for_time_series(heap[df], parameter, "D"))
        /\ call' = [NoCall EXCEPT !.op = "aggregate_data_for_time_series",
                                  !.parameter = parameter, !.ret = NewId]
    /\ UNCHANGED <<file, df>>

AggregateDataForComparison ==
    /\ df # 0
    /\ \E parameter \in ParameterNames :
        /\ heap' = Alloc(aggregate_data_for_comparison(heap[df], parameter))
        /\ call' = [NoCall EXCEPT !.op = "aggregate_data_for_comparison",
                                  !.parameter = parameter, !.ret = NewId]
    /\ UNCHANGED <<file, df>>

PrepareCorrelationData ==
    /\ df # 0
    /\ \E param1 \in ParameterNames, param2 \in ParameterNames :
        /\ heap' = Alloc(prepare_correlation_data(heap[df], param1, param2))
        /\ call' = [NoCall EXCEPT !.op = "prepare_correlation_data",
                                  !.param1 = param1, !.param2 = param2, !.ret = NewId]
    /\ UNCHANGED <<file, df>>

Next ==
    \/ Load
    \/ FilterDataByDateRange
    \/ FilterDataByLocation
    \/ FilterDataByParameter
    \/ AggregateDataForTimeSeries
    \/ AggregateDataForComparison
    \/ PrepareCorrelationData

(* the calls of a caller that uses part of the module *)
NextLoad == Load

NextFilter == Load \/ FilterDataByLocation \/ FilterDataByParameter

NextDate == Load \/ FilterDataByDateRange \/ AggregateDataForTimeSeries

NextValue == Load \/ AggregateDataForComparison \/ PrepareCorrelationData

----------------------------------------------------------------------------
(* The files: a header and at most MaxRows rows of text cells *)

CsvRows(D, L, P, V, A, O) ==
    [date : D, location : L, parameter : P, value : V, lat : A, lon : O]

(* a file with the header given: its rows have the cells of those columns *)
CsvFiles(header, rows) ==
    {[columns |-> header, rows |-> [i \in 1..Len(s) |-> [c \in header |-> s[i][c]]]] :
        s \in SeqUpTo(rows, MaxRows)}

Midnight == [day |-> 0, tick |-> 0]

(* complete files of numeric rows, with and without a location *)
Files == CsvFiles(Columns,
    CsvRows({Midnight}, {"A", "NaN"}, {"PM25", "NO2"}, {"10"}, {"10"}, {"20"}))

(* complete files of rows differing in location and parameter *)
FilterFiles == CsvFiles(Columns,
    CsvRows({Midnight}, {"A", "B", "NaN"}, {"PM25", "NO2"}, {"10"}, {"10"}, {"20"}))

(* complete files of rows differing in date and time of day *)
DateFiles == CsvFiles(Columns,
    CsvRows(DateLikes, {"A"}, {"PM25"}, {"10"}, {"10"}, {"20"}))

(* complete files of rows differing in location, parameter and value *)
ValueFiles == CsvFiles(Columns,
    CsvRows({Midnight}, {"A", "B", "NaN"}, {"PM25", "NO2"}, {"10", "20"}, {"10"}, {"20"}))

(* the cells of a row that are missing or are no number *)
Dirty(r) ==
    {c \in {"location", "parameter"} : r[c] \in NaValues}
        \cup {c \in {"value", "lat", "lon"} : r[c] \notin Numerals}

(* rows with at most one such cell, under a header that lacks at most one  *)
(* column                                                                  *)
LoadRows ==
    {r \in CsvRows({Midnight}, {"A", ""}, {"PM25", "NA"}, {"10", "", "abc"},
                   {"10", "NaN", "abc"}, {"20", "", "abc"}) : Cardinality(Dirty(r)) <= 1}

LoadFiles ==
    {[columns |-> h, rows |-> [i \in 1..Len(s) |-> [c \in h |-> s[i][c]]]] :
        h \in {Columns} \cup {Columns \ {c} : c \in Columns},
        s \in SeqUpTo(LoadRows, MaxRows)}

InitWith(files) ==
    /\ file \in files
    /\ heap = <<>>
    /\ df = 0
    /\ call = NoCall

Init == InitWith(Files)

InitLoad == InitWith(LoadFiles)

InitFilter == InitWith(FilterFiles)

InitDate == InitWith(DateFiles)

InitValue == InitWith(ValueFiles)

(* every function of the module, on files that differ in location and     *)
(* parameter                                                               *)
Spec == Init /\ [][Next]_vars

(* the loader, on files with missing columns, missing cells and cells     *)
(* that are no number                                                      *)
SpecLoad == InitLoad /\ [][NextLoad]_vars

(* the location and parameter filters *)
SpecFilter == InitFilter /\ [][NextFilter]_vars

(* the functions that read the date column, on files whose rows differ in *)
(* day and time of day                                                     *)
SpecDate == InitDate /\ [][NextDate]_vars

(* the functions that read the value column, on files whose rows differ   *)
(* in location, parameter and value                                        *)
SpecValue == InitValue /\ [][NextValue]_vars

----------------------------------------------------------------------------
(* What the claims are stated with *)

(* the frame the caller holds, and the frame the last call returned *)
Input == heap[df]

Result == heap[call.ret]

RowsOf(t) == {t.rows[i] : i \in Positions(t)}

(* the calendar day a timestamp falls on *)
DayOf(ts) == ts \div OneDay

(* index labels grow along the rows: the rows are in the order of the file *)
InFileOrder(t) ==
    \A i, j \in Positions(t) : i < j => t.rows[i].index < t.rows[j].index

(* r holds exactly the rows of t that pass Pass, once each, in t's order *)
IsSelection(r, t, Pass(_)) ==
    /\ r.columns = t.columns
    /\ InFileOrder(r)
    /\ RowsOf(r) = {x \in RowsOf(t) : Pass(x)}

RECURSIVE SumValues(_, _)
SumValues(t, I) ==
    IF I = {} THEN 0
    ELSE LET i == CHOOSE x \in I : TRUE
         IN  t.rows[i].value.n + SumValues(t, I \ {i})

(* the positions of the rows of t measuring parameter p *)
Measuring(t, p) == {i \in Positions(t) : t.rows[i].parameter = Str(p)}

FilterAndAggregateOps ==
    {"filter_data_by_date_range", "filter_data_by_location", "filter_data_by_parameter",
     "aggregate_data_for_time_series", "aggregate_data_for_comparison",
     "prepare_correlation_data"}

----------------------------------------------------------------------------
(* C1: filter_data_by_date_range returns exactly the rows with             *)
(* start <= date < end + 1 day, once each and in their original order; a   *)
(* row dated on the day of end (and not before start) is kept, a row dated *)
(* end + 1 day is not.                                                     *)
C1_DateRangeSelects ==
    call.op = "filter_data_by_date_range" =>
        LET InRange(x) == call.start <= x.date /\ x.date < call.end + OneDay
        IN  /\ IsSelection(Result, Input, InRange)
            /\ \A x \in RowsOf(Input) :
                /\ (DayOf(x.date) = DayOf(call.end) /\ x.date >= call.start)
                        => x \in RowsOf(Result)
                /\ x.date = call.end + OneDay => x \notin RowsOf(Result)

(* a call that kept a row dated on the day of end and dropped a row dated  *)
(* end + 1 day                                                             *)
C1_Witness ==
    /\ call.op = "filter_data_by_date_range"
    /\ \E x \in RowsOf(Result) : DayOf(x.date) = DayOf(call.end)
    /\ \E x \in RowsOf(Input) \ RowsOf(Result) : x.date = call.end + OneDay

(* C2 as claimed: every start > end gives an empty frame. *)
C2_InvertedRangeIsEmpty ==
    (call.op = "filter_data_by_date_range" /\ call.start > call.end) =>
        (Result.rows = <<>> /\ call.error = "")

(* C2 as amended: start >= end + 1 day, which is every start > end when    *)
(* neither bound carries a time of day, gives an empty frame and no error; *)
(* with end < start < end + 1 day the rows dated from start to before      *)
(* end + 1 day are returned.                                               *)
C2_DayApartRangeIsEmpty ==
    call.op = "filter_data_by_date_range" =>
        LET wholeDays == call.start % OneDay = 0 /\ call.end % OneDay = 0
            InRange(x) == call.start <= x.date /\ x.date < call.end + OneDay
        IN  /\ call.error = ""
            /\ (call.start >= call.end + OneDay) => Result.rows = <<>>
            /\ (wholeDays /\ call.start > call.end) => Result.rows = <<>>
            /\ (call.end < call.start /\ call.start < call.end + OneDay)
                    => RowsOf(Result) = {x \in RowsOf(Input) : InRange(x)}

(* a call with whole-day bounds, start > end, on a frame that has rows *)
C2_Witness ==
    /\ call.op = "filter_data_by_date_range"
    /\ call.start > call.end
    /\ call.start % OneDay = 0 /\ call.end % OneDay = 0
    /\ Input.rows # <<>>
    /\ Result.rows = <<>>

(* C3 as claimed: aggregate_data_for_time_series gives one row per         *)
(* (calendar day, location) among the rows measuring the parameter, with   *)
(* the mean of that pair's values.                                         *)
C3_OneBucketPerDayAndLocation ==
    call.op = "aggregate_data_for_time_series" =>
        LET M == Measuring(Input, call.parameter)
            Bucket(i) == <<DayOf(Input.rows[i].date), Input.rows[i].location>>
            Buckets == {Bucket(i) : i \in M}
            In(b) == {i \in M : Bucket(i) = b}
        IN  /\ Len(Result.rows) = Cardinality(Buckets)
            /\ \A b \in Buckets : \E j \in Positions(Result) :
                 LET x == Result.rows[j]
                 IN  /\ DayOf(x.date) = b[1]
                     /\ x.location = b[2]
                     /\ x.value.num * Cardinality(In(b)) = SumValues(Input, In(b)) * x.value.den

(* C4 as claimed, for two different parameters: a (date, location) pair    *)
(* measured for both parameters is one row of prepare_correlation_data's   *)
(* result, any other pair is none.                                         *)
C4_OneRowPerCommonPair ==
    (call.op = "prepare_correlation_data" /\ call.param1 # call.param2) =>
        LET Key(x) == <<x.date, x.location>>
            Pairs == {Key(x) : x \in RowsOf(Input)}
            Of(p, k) == {i \in Measuring(Input, p) : Key(Input.rows[i]) = k}
            Out(k) == {j \in Positions(Result) : Key(Result.rows[j]) = k}
        IN  \A k \in Pairs :
                k[2] # NaN =>
                    Cardinality(Out(k)) =
                        IF Of(call.param1, k) # {} /\ Of(call.param2, k) # {} THEN 1 ELSE 0

(* C4 as amended: a pair is in the result if and only if it is measured    *)
(* for both parameters; it then has one row for every combination of a     *)
(* param1 row and a param2 row of the pair, carrying the two values (one   *)
(* row when each parameter was measured once for the pair).                *)
C4_InnerJoin ==
    call.op = "prepare_correlation_data" =>
        LET Key(x) == <<x.date, x.location>>
            Pairs == {Key(x) : x \in RowsOf(Input)}
            Of(p, k) == {i \in Measuring(Input, p) : Key(Input.rows[i]) = k}
            Out(k) == {j \in Positions(Result) : Key(Result.rows[j]) = k}
        IN  /\ \A j \in Positions(Result) : Key(Result.rows[j]) \in Pairs
            /\ \A k \in Pairs :
                /\ Out(k) # {} <=> (Of(call.param1, k) # {} /\ Of(call.param2, k) # {})
                /\ Cardinality(Out(k)) =
                       Cardinality(Of(call.param1, k)) * Cardinality(Of(call.param2, k))
                /\ \A j \in Out(k) :
                       \E a \in Of(call.param1, k), b \in Of(call.param2, k) :
                           /\ Result.rows[j].first = Input.rows[a].value
                           /\ Result.rows[j].second = Input.rows[b].value
                /\ \A a \in Of(call.param1, k), b \in Of(call.param2, k) :
                       \E j \in Out(k) :
                           /\ Result.rows[j].first = Input.rows[a].value
                           /\ Result.rows[j].second = Input.rows[b].value

(* a call with two parameters where one pair is joined into one row with   *)
(* two different values and another pair, measured for one parameter only, *)
(* is left out                                                             *)
C4_Witness ==
    /\ call.op = "prepare_correlation_data"
    /\ call.param1 # call.param2
    /\ Len(Result.rows) = 1
    /\ Result.rows[1].first # Result.rows[1].second
    /\ \E x \in RowsOf(Input) :
          /\ x.parameter = Str(call.param1)
          /\ x.location # Result.rows[1].location

(* C5 as claimed, for a file with all six columns: load_and_process_data   *)
(* drops the rows whose value, lat or lon is missing or is no number and   *)
(* keeps the others, so that every row kept has a number in the three.     *)
C5_DropsMissingAndUnparseable ==
    (call.op = "load_and_process_data" /\ call.error = "" /\ file.columns = Columns) =>
        LET Bad == {i \in 1..Len(file.rows) :
                        \E c \in {"value", "lat", "lon"} : file.rows[i][c] \notin Numerals}
        IN  /\ Len(Input.rows) = Len(file.rows) - Cardinality(Bad)
            /\ \A x \in RowsOf(Input) :
                   \A c \in {"value", "lat", "lon"} : x[c].k = "float"

(* C5 as amended: the rows dropped are exactly those whose value, lat or   *)
(* lon is missing; of N rows with M such rows, N - M are kept, in order,   *)
(* none of them with a missing value, lat or lon; a row with text that is  *)
(* no number in one of the three is kept, and so is a row with a missing   *)
(* location or parameter.                                                  *)
C5_DropsMissing ==
    (call.op = "load_and_process_data" /\ call.error = "") =>
        LET Missing == {i \in 1..Len(file.rows) :
                            \E c \in {"value", "lat", "lon"} : file.rows[i][c] \in NaValues}
        IN  /\ Len(Input.rows) = Len(file.rows) - Cardinality(Missing)
            /\ InFileOrder(Input)
            /\ {x.index + 1 : x \in RowsOf(Input)} = (1..Len(file.rows)) \ Missing
            /\ \A x \in RowsOf(Input) :
                   \A c \in {"value", "lat", "lon"} : x[c].k # "nan"

(* a load that dropped a row, kept a row with text for a number and kept a *)
(* row without a location or a parameter                                   *)
C5_Witness ==
    /\ call.op = "load_and_process_data" /\ call.error = ""
    /\ file.columns = Columns
    /\ Len(Input.rows) < Len(file.rows)
    /\ \E x \in RowsOf(Input) : \E c \in {"value", "lat", "lon"} : x[c].k = "str"
    /\ \E x \in RowsOf(Input) : x.location = NaN \/ x.parameter = NaN

(* C6: filter_data_by_location returns the frame it was given when the     *)
(* selection is empty or None, and otherwise exactly the rows whose        *)
(* location is selected, in order; a selected location no row has adds     *)
(* nothing.                                                                *)
C6_LocationFilter ==
    call.op = "filter_data_by_location" =>
        LET Selected(x) == x.location.k = "str" /\ x.location.s \in call.locations.items
        IN  /\ call.error = ""
            /\ IF call.locations.kind = "None" \/ call.locations.items = {}
               THEN Result = Input
               ELSE IsSelection(Result, Input, Selected)

(* a call selecting a location that some rows have and one that none has,  *)
(* which kept some rows and dropped others                                 *)
C6_Witness ==
    /\ call.op = "filter_data_by_location"
    /\ \E l \in call.locations.items : \A x \in RowsOf(Input) : x.location # Str(l)
    /\ Result.rows # <<>>
    /\ Len(Result.rows) < Len(Input.rows)

(* C7 as claimed: every filter and aggregator returns an object that is    *)
(* not the frame it was given, and that frame is as load left it.          *)
C7_AlwaysNewFrame ==
    call.op \in FilterAndAggregateOps =>
        /\ call.ret # df
        /\ Input = load_and_process_data(file).table

(* C7 as amended: every filter and aggregator leaves the frame it was      *)
(* given as load left it, and returns an object that is not that frame,    *)
(* except filter_data_by_location with an empty or None selection, which   *)
(* returns the very frame it was given.                                    *)
C7_NewFrameUnlessNoLocations ==
    call.op \in FilterAndAggregateOps =>
        /\ Input = load_and_process_data(file).table
        /\ call.ret \in DOMAIN heap
        /\ call.ret = df <=>
              (call.op = "filter_data_by_location" /\ Falsy(call.locations))

(* a call of filter_data_by_location with an empty list that returned the  *)
(* caller's own frame                                                      *)
C7_Witness ==
    /\ call.op = "filter_data_by_location"
    /\ call.locations = List({})
    /\ call.ret = df
    /\ Input.rows # <<>>

(* C8 as claimed: load_and_process_data fails, returning no frame, when    *)
(* any of the six columns is absent from the header.                       *)
C8_FailsOnAnyAbsentColumn ==
    (call.op = "load_and_process_data" /\ ~(Columns \subseteq file.columns)) =>
        (call.error # "" /\ df = 0)

(* C8 as amended: load_and_process_data fails, returning no frame, exactly *)
(* when date, value, lat or lon is absent from the header; without         *)
(* location or parameter it returns a frame that lacks the column.         *)
C8_FailsOnAbsentLoadKey ==
    call.op = "load_and_process_data" =>
        /\ (call.error # "" /\ df = 0 /\ call.ret = 0 /\ DOMAIN heap = {})
              <=> ~({"date", "value", "lat", "lon"} \subseteq file.columns)
        /\ call.error = "" => (call.ret = df /\ df # 0 /\ Input.columns = file.columns)

(* a load that failed on a file of rows, whose header lacks one column *)
C8_Witness ==
    /\ call.op = "load_and_process_data"
    /\ call.error # ""
    /\ df = 0
    /\ file.rows # <<>>
    /\ "location" \in file.columns /\ "parameter" \in file.columns

(* C9: filter_data_by_parameter returns exactly the rows whose parameter   *)
(* is the string given, or is in the list given, in order; so a string p   *)
(* gives what the list [p] gives, and the empty list gives an empty frame  *)
(* (and not the frame it was given, as the location filter does).          *)
C9_ParameterFilter ==
    call.op = "filter_data_by_parameter" =>
        LET wanted == IF call.parameters.kind = "str"
                      THEN {call.parameters.s} ELSE call.parameters.items
            Selected(x) == x.parameter.k = "str" /\ x.parameter.s \in wanted
        IN  /\ call.error = ""
            /\ call.ret # df
            /\ IsSelection(Result, Input, Selected)
            /\ call.parameters = List({}) => Result.rows = <<>>

(* a call with a single string that kept some rows and dropped others *)
C9_Witness ==
    /\ call.op = "filter_data_by_parameter"
    /\ call.parameters.kind = "str"
    /\ Result.rows # <<>>
    /\ Len(Result.rows) < Len(Input.rows)

(* C10: aggregate_data_for_comparison gives one row per location among the *)
(* rows measuring the parameter, with the mean, the minimum and the        *)
(* maximum of that location's values, min <= mean <= max; no such row, no  *)
(* rows.                                                                   *)
C10_ComparisonStats ==
    call.op = "aggregate_data_for_comparison" =>
        LET M == {i \in Measuring(Input, call.parameter) : Input.rows[i].location # NaN}
            Locations == {Input.rows[i].location : i \in M}
            At(l) == {i \in M : Input.rows[i].location = l}
            Values(l) == {Input.rows[i].value.n : i \in At(l)}
        IN  /\ Result.columns = {"location", "mean", "min", "max"}
            /\ Len(Result.rows) = Cardinality(Locations)
            /\ {x.location : x \in RowsOf(Result)} = Locations
            /\ \A x \in RowsOf(Result) :
                /\ x.mean.den > 0
                /\ x.mean.num * Cardinality(At(x.location))
                       = SumValues(Input, At(x.location)) * x.mean.den
                /\ x.min \in Values(x.location) /\ \A v \in Values(x.location) : x.min <= v
                /\ x.max \in Values(x.location) /\ \A v \in Values(x.location) : x.max >= v
                /\ x.min * x.mean.den <= x.mean.num
                /\ x.mean.num <= x.max * x.mean.den
            /\ Measuring(Input, call.parameter) = {} => Result.rows = <<>>

(* a call that gave two locations, one of them with min < mean < max *)
C10_Witness ==
    /\ call.op = "aggregate_data_for_comparison"
    /\ Len(Result.rows) = 2
    /\ \E x \in RowsOf(Result) :
          /\ x.min * x.mean.den < x.mean.num
          /\ x.mean.num < x.max * x.mean.den

====
